---------------------------- MODULE Spec2Model ----------------------------
(***************************************************************************)
(* A model of grafx/processors/eq.py: the three equalizer facades          *)
(* (ZeroPhaseFIREqualizer, NewZeroPhaseFIREqualizer, GraphicEqualizer),    *)
(* their construction, their forward calls and their parameter_size        *)
(* query.                                                                  *)
(*                                                                         *)
(* An instance is the map `self` from attribute names to values, exactly   *)
(* the attributes __init__ assigns; reading an attribute that was never    *)
(* assigned ends the reading method in AttributeError, as in Python.       *)
(* Two callers run forward concurrently on the one instance; a forward     *)
(* call is two steps (filter design, then filter application), the two     *)
(* statements of each forward body.                                        *)
(*                                                                         *)
(* Numbers are exact rationals <<numerator, denominator>>.  Log-domain     *)
(* parameters are integers in units of ln 2, so that exp is exact.         *)
(* grafx.processors.core.* (FIR synthesis, filterbank, graphic-EQ biquad   *)
(* design, biquad backend, convolution, mid/side transforms) is imported   *)
(* by eq.py; those operators follow the design document, sections 4.1-4.5. *)
(***************************************************************************)
EXTENDS Integers, Sequences, FiniteSets, TLC

(***************************************************************************)
(* Exact rational arithmetic.                                              *)
(***************************************************************************)
Abs(n) == IF n < 0 THEN -n ELSE n

RECURSIVE GCD(_, _)
GCD(a, b) == IF b = 0 THEN a ELSE GCD(b, a % b)

Rat(n, d) ==
    LET s == IF d < 0 THEN -1 ELSE 1
        g == GCD(Abs(n), Abs(d))
    IN  <<(s * n) \div g, (s * d) \div g>>

RInt(n) == <<n, 1>>

RZero == <<0, 1>>

ROne == <<1, 1>>

RAdd(a, b) == Rat(a[1] * b[2] + b[1] * a[2], a[2] * b[2])

RNeg(a) == <<-a[1], a[2]>>

RSub(a, b) == RAdd(a, RNeg(b))

RMul(a, b) == Rat(a[1] * b[1], a[2] * b[2])

RDiv(a, b) == Rat(a[1] * b[2], a[2] * b[1])

RAbs(a) == <<Abs(a[1]), a[2]>>

RECURSIVE RSum(_)
RSum(s) == IF s = <<>> THEN RZero ELSE RAdd(Head(s), RSum(Tail(s)))

RECURSIVE IntPow(_, _)
IntPow(b, e) == IF e = 0 THEN 1 ELSE b * IntPow(b, e - 1)

\* torch.exp on a log value given in units of ln 2: exp(v ln 2) = 2^v.
Exp(v) == IF v >= 0 THEN RInt(IntPow(2, v)) ELSE Rat(1, IntPow(2, -v))

(***************************************************************************)
(* Tensors, one batch item: a signal or a FIR is a sequence of channels,   *)
(* each a sequence of samples.  Shape(x) is its (channels, samples).       *)
(***************************************************************************)
None == <<>>

Shape(x) == IF x = None THEN <<0, 0>> ELSE <<Len(x), Len(x[1])>>

(***************************************************************************)
(* grafx.processors.core.midside (design document 4.5): mid = (L+R)/2,     *)
(* side = (L-R)/2, and back L = mid+side, R = mid-side.                    *)
(***************************************************************************)
lr_to_ms(x) ==
    << [n \in 1..Len(x[1]) |-> RMul(Rat(1, 2), RAdd(x[1][n], x[2][n]))],
       [n \in 1..Len(x[1]) |-> RMul(Rat(1, 2), RSub(x[1][n], x[2][n]))] >>

ms_to_lr(x) ==
    << [n \in 1..Len(x[1]) |-> RAdd(x[1][n], x[2][n])],
       [n \in 1..Len(x[1]) |-> RSub(x[1][n], x[2][n])] >>

(***************************************************************************)
(* grafx.processors.core.convolution.convolve (design document 4.5).       *)
(* Linear convolution of every channel of `x` with its kernel; the output  *)
(* has the length of `x`.  mode "zerophase" aligns the kernel's centre tap *)
(* with the current sample, mode "causal" its first tap.  A one-channel    *)
(* kernel is shared by all channels, otherwise kernels pair with channels. *)
(***************************************************************************)
RECURSIVE ConvolveSample(_, _, _, _)
ConvolveSample(xc, hc, i, m) ==
    IF m = 0 THEN RZero
    ELSE RAdd(ConvolveSample(xc, hc, i + 1, m - 1),
              IF i >= 1 /\ i <= Len(xc) THEN RMul(hc[m], xc[i]) ELSE RZero)

\* y[n] = sum over taps m of h[m] * x[n - m + 1 + delay], zero outside x.
ConvolveChannel(xc, hc, delay) ==
    [n \in 1..Len(xc) |-> ConvolveSample(xc, hc, n - Len(hc) + 1 + delay, Len(hc))]

ConvolveCompatible(x, h) == Len(h) = 1 \/ Len(h) = Len(x)

convolve(x, h, mode) ==
    [c \in 1..Len(x) |->
        LET hc == IF Len(h) = 1 THEN h[1] ELSE h[c]
            delay == IF mode = "zerophase" THEN (Len(hc) - 1) \div 2 ELSE 0
        IN  ConvolveChannel(x[c], hc, delay)]


(***************************************************************************)
(* cos(2 pi j / N) for the transform lengths whose cosines are rational.   *)
(***************************************************************************)
Cos2Pi(j, N) ==
    LET r == j % N
    IN  CASE N = 1 -> ROne
          [] N = 2 -> IF r = 0 THEN ROne ELSE RInt(-1)
          [] N = 3 -> IF r = 0 THEN ROne ELSE Rat(-1, 2)
          [] N = 4 -> <<RInt(1), RInt(0), RInt(-1), RInt(0)>>[r + 1]
          [] N = 6 -> <<RInt(1), Rat(1, 2), Rat(-1, 2), RInt(-1), Rat(-1, 2), Rat(1, 2)>>[r + 1]

\* sin(2 pi j / N) for N = 1, 2, 4.
Sin2Pi(j, N) ==
    LET r == j % N
    IN  CASE N = 1 -> RZero
          [] N = 2 -> RZero
          [] N = 4 -> <<RInt(0), RInt(1), RInt(0), RInt(-1)>>[r + 1]

(***************************************************************************)
(* Finite precision.  A value that the host arithmetic cannot hold exactly *)
(* (a square root, a sample of a recursive filter) is rounded to a         *)
(* multiple of 1/Precision.  Scaling is done in two stages so that a small *)
(* stabiliser such as 1e-7 does not overflow the intermediate product.     *)
(***************************************************************************)
Precision == 16

\* floor(q * s) for a rational q and a positive integer s.
ScaleFloor(q, s) == (q[1] \div q[2]) * s + ((q[1] % q[2]) * s) \div q[2]

\* floor(q * s * s), scaling the remainder one factor at a time.
ScaleFloor2(q, s) ==
    LET r1 == (q[1] % q[2]) * s
    IN  (q[1] \div q[2]) * s * s + (r1 \div q[2]) * s + ((r1 % q[2]) * s) \div q[2]

\* Round to nearest, halves away from zero.
Round(q) ==
    LET a == <<Abs(q[1]), q[2]>>
        m == ScaleFloor(RAdd(a, Rat(1, 2 * Precision)), Precision)
    IN  Rat(IF q[1] < 0 THEN -m ELSE m, Precision)

\* The integer r in lo .. hi-1 with r*r <= m < (r+1)*(r+1), by bisection.
RECURSIVE ISqrtIn(_, _, _)
ISqrtIn(m, lo, hi) ==
    IF hi - lo <= 1 THEN lo
    ELSE LET mid == (lo + hi) \div 2
         IN  IF mid * mid <= m THEN ISqrtIn(m, mid, hi) ELSE ISqrtIn(m, lo, mid)

ISqrt(m) == ISqrtIn(m, 0, 32768)

RSqrt(q) == Rat(ISqrt(ScaleFloor2(q, Precision)), Precision)

(***************************************************************************)
(* Window (design document 3, 4.2): a named analytic window or an explicit *)
(* coefficient sequence, zero-centred, as long as the kernel.  The `window`*)
(* option is the tagged value [tag, name, coeffs].                         *)
(***************************************************************************)
NamedWindow(name) == [tag |-> "named", name |-> name, coeffs |-> <<>>]

ExplicitWindow(coeffs) == [tag |-> "explicit", name |-> "", coeffs |-> coeffs]

\* No window argument in the constructor call.
OmittedWindow == [tag |-> "omitted", name |-> "", coeffs |-> <<>>]

WindowNames == {"hann", "hamming", "blackman", "bartlett", "kaiser"}

\* Symmetric windows of length 1 and 3; "kaiser" is taken with beta = 0.
WindowCoeffs(name, n) ==
    IF n = 1 THEN <<ROne>>
    ELSE CASE name = "hann" -> <<RZero, ROne, RZero>>
           [] name = "hamming" -> <<Rat(2, 25), ROne, Rat(2, 25)>>
           [] name = "blackman" -> <<RZero, ROne, RZero>>
           [] name = "bartlett" -> <<RZero, ROne, RZero>>
           [] name = "kaiser" -> <<ROne, ROne, ROne>>

WindowValid(window, n) ==
    IF window.tag = "named" THEN window.name \in WindowNames
    ELSE Len(window.coeffs) = n

get_window(window, n) ==
    IF window.tag = "named" THEN WindowCoeffs(window.name, n) ELSE window.coeffs

(***************************************************************************)
(* grafx.processors.core.fir.ZeroPhaseFIR (design document 4.2).           *)
(* Construction fixes K = num_magnitude_bins, the kernel length 2K - 1 and *)
(* the window, and fails with ConfigurationError on an unknown window.     *)
(***************************************************************************)
ZeroPhaseFIR_init(num_magnitude_bins, window) ==
    LET fir_len == 2 * num_magnitude_bins - 1
    IN  IF ~WindowValid(window, fir_len)
        THEN [err |-> "ConfigurationError", obj |-> [kind |-> "none"]]
        ELSE [err |-> "ok",
              obj |-> [kind |-> "ZeroPhaseFIR",
                       num_bins |-> num_magnitude_bins,
                       n_params |-> num_magnitude_bins,
                       fir_len |-> fir_len,
                       window |-> get_window(window, fir_len),
                       fb |-> <<>>,
                       eps |-> RZero]]

\* The zero-centred inverse transform of a one-sided magnitude spectrum,
\* tapered by the window: h[i] = v[i] * ir[(i - (K-1)) mod N].
MagnitudeToFIR(mag, fir_len, window) ==
    LET K == Len(mag)
        ir(n) == RMul(Rat(1, fir_len),
                      RAdd(mag[1],
                           RSum([k \in 1..(K - 1) |->
                               RMul(RInt(2), RMul(mag[k + 1], Cos2Pi(k * n, fir_len)))])))
    IN  [i \in 1..fir_len |->
            RMul(window[i], ir((i - 1 - (K - 1) + fir_len) % fir_len))]

(***************************************************************************)
(* Filterbank builder (design document 4.1), linear scale: n_filters + 2   *)
(* equally spaced break points between f_min and f_max, one triangle per   *)
(* band over the K linear bins 0 .. nyquist.  A K x n_filters matrix.      *)
(***************************************************************************)
ScaleNames == {"bark_traunmuller", "bark_schroeder", "bark_wang", "mel_htk", "mel_slaney", "linear", "log"}

NoFreq == -1

Triangle(f, lo, mid, hi) ==
    IF RSub(f, lo)[1] < 0 \/ RSub(hi, f)[1] < 0 THEN RZero
    ELSE IF RSub(f, mid)[1] <= 0 THEN RDiv(RSub(f, lo), RSub(mid, lo))
    ELSE RDiv(RSub(hi, f), RSub(hi, mid))

FilterbankMatrix(K, n_filters, f_min, f_max, nyquist) ==
    LET bp(j) == RAdd(RInt(f_min), Rat(j * (f_max - f_min), n_filters + 1))
        binf(i) == IF K = 1 THEN RZero ELSE Rat((i - 1) * nyquist, K - 1)
    IN  [i \in 1..K |-> [b \in 1..n_filters |->
            Triangle(binf(i), bp(b - 1), bp(b), bp(b + 1))]]

ZeroPhaseFilterBankFIR_init(num_energy_bins, scale, n_filters, f_min, f_max, sr, eps, window) ==
    LET fir_len == 2 * num_energy_bins - 1
        fmax == IF f_max = NoFreq THEN sr \div 2 ELSE f_max
        nyq == IF sr = NoFreq THEN f_max ELSE sr \div 2
    IN  IF \/ ~WindowValid(window, fir_len)
           \/ scale \notin ScaleNames
           \/ (f_max = NoFreq /\ sr = NoFreq)
        THEN [err |-> "ConfigurationError", obj |-> [kind |-> "none"]]
        ELSE [err |-> "ok",
              obj |-> [kind |-> "ZeroPhaseFilterBankFIR",
                       num_bins |-> num_energy_bins,
                       n_params |-> n_filters,
                       fir_len |-> fir_len,
                       window |-> get_window(window, fir_len),
                       fb |-> FilterbankMatrix(num_energy_bins, n_filters, f_min, fmax, nyq),
                       eps |-> eps]]

\* One row of parameters to one kernel: ShapeError unless the row has the
\* configured length; with a filterbank, magnitude = sqrt(M exp(H_fb) + eps).
SynthesizeRow(fir, row) ==
    LET mag == IF fir.kind = "ZeroPhaseFIR"
               THEN [k \in 1..Len(row) |-> Exp(row[k])]
               ELSE [i \in 1..fir.num_bins |->
                        RSqrt(RAdd(RSum([b \in 1..Len(row) |->
                                        RMul(fir.fb[i][b], Exp(row[b]))]),
                                   fir.eps))]
    IN  MagnitudeToFIR(mag, fir.fir_len, fir.window)

\* self.fir(log_magnitude) on a C_eq x K' parameter matrix.
FIR_forward(fir, log_magnitude) ==
    IF \E c \in 1..Len(log_magnitude) : Len(log_magnitude[c]) # fir.n_params
    THEN [err |-> "ShapeError", fir |-> None]
    ELSE [err |-> "ok",
          fir |-> [c \in 1..Len(log_magnitude) |-> SynthesizeRow(fir, log_magnitude[c])]]

(***************************************************************************)
(* Graphic-EQ biquad designer, grafx.processors.core.geq (design document  *)
(* 4.3, and the transfer function in GraphicEqualizer's docstring).  The   *)
(* band tables are scaled down: BarkBands stands for the 24 bands of       *)
(* "bark", ThirdOctBands for the 31 bands of "third_oct".                  *)
(***************************************************************************)
BarkBands == 2

ThirdOctBands == 3

GeqScales == {"bark", "third_oct"}

NumBands(scale) == IF scale = "bark" THEN BarkBands ELSE ThirdOctBands

\* The per-band table: cos(omega_k) and tan(B_k / 2).
CosOmega(k) == Rat(1, k + 1)

TanHalfB(k) == Rat(k, 4)

GraphicEqualizerBiquad_init(scale, sr) ==
    IF scale \notin GeqScales
    THEN [err |-> "ConfigurationError", obj |-> [kind |-> "none"]]
    ELSE [err |-> "ok",
          obj |-> [kind |-> "GraphicEqualizerBiquad", scale |-> scale, sr |-> sr,
                   num_bands |-> NumBands(scale)]]

\* g~ = g^0.4 for g = 2^lg; exact when lg is a multiple of 5.
GainTilde(lg) == Exp((2 * lg) \div 5)

\* beta_k; the 0/0 of the inner fraction at g = 1 is special-cased to 0.
Beta(lg, k) ==
    LET g == Exp(lg)
        gt == GainTilde(lg)
        num == RAbs(RSub(RMul(gt, gt), ROne))
        den == RAbs(RSub(RMul(g, g), RMul(gt, gt)))
    IN  IF den[1] = 0 THEN RZero
        ELSE RMul(RSqrt(RDiv(num, den)), TanHalfB(k))

BiquadSection(lg, k) ==
    LET gb == RMul(Exp(lg), Beta(lg, k))
        b == Beta(lg, k)
        c2 == RMul(RInt(-2), CosOmega(k))
    IN  [B |-> <<Round(RAdd(ROne, gb)), Round(c2), Round(RSub(ROne, gb))>>,
         A |-> <<Round(RAdd(ROne, b)), Round(c2), Round(RSub(ROne, b))>>]

\* self.geq(log_gains): one section per band, in band order.
geq_forward(geq, log_gains) ==
    IF Len(log_gains) # 1 \/ Len(log_gains[1]) # geq.num_bands
    THEN [err |-> "ShapeError", fir |-> None]
    ELSE [err |-> "ok",
          fir |-> [k \in 1..geq.num_bands |-> BiquadSection(log_gains[1][k], k)]]

(***************************************************************************)
(* Biquad filter backend, grafx.processors.core.iir (design document 4.4). *)
(***************************************************************************)
Backends == {"fsm", "lfilter"}

BiquadFilterBackend_init(backend, fsm_fir_len) ==
    IF backend \notin Backends
    THEN [err |-> "ConfigurationError", obj |-> [kind |-> "none"]]
    ELSE [err |-> "ok",
          obj |-> [kind |-> "BiquadFilterBackend", backend |-> backend,
                   fsm_fir_len |-> fsm_fir_len]]

\* Exact mode, one section on one channel: the direct-form recursion
\* a0 y[n] = b0 x[n] + b1 x[n-1] + b2 x[n-2] - a1 y[n-1] - a2 y[n-2].
RECURSIVE LFilterChannel(_, _, _)
LFilterChannel(sec, xc, n) ==
    IF n = 0 THEN <<>>
    ELSE LET y == LFilterChannel(sec, xc, n - 1)
             xs(i) == IF i >= 1 THEN xc[i] ELSE RZero
             ys(i) == IF i >= 1 THEN y[i] ELSE RZero
             acc == RSub(RAdd(RMul(sec.B[1], xs(n)),
                              RAdd(RMul(sec.B[2], xs(n - 1)), RMul(sec.B[3], xs(n - 2)))),
                         RAdd(RMul(sec.A[2], ys(n - 1)), RMul(sec.A[3], ys(n - 2))))
         IN  Append(y, Round(RDiv(acc, sec.A[1])))

RECURSIVE LFilterCascade(_, _, _)
LFilterCascade(secs, x, k) ==
    IF k = 0 THEN x
    ELSE LET u == LFilterCascade(secs, x, k - 1)
         IN  [c \in 1..Len(u) |-> LFilterChannel(secs[k], u[c], Len(u[c]))]

\* Complex numbers <<re, im>> over the rationals.
CMul(u, v) == <<RSub(RMul(u[1], v[1]), RMul(u[2], v[2])), RAdd(RMul(u[1], v[2]), RMul(u[2], v[1]))>>

CDiv(u, v) ==
    LET d == RAdd(RMul(v[1], v[1]), RMul(v[2], v[2]))
        n == CMul(u, <<v[1], RNeg(v[2])>>)
    IN  <<RDiv(n[1], d), RDiv(n[2], d)>>

CPoly(co, w) ==
    LET w2 == CMul(w, w)
    IN  <<RAdd(co[1], RAdd(RMul(co[2], w[1]), RMul(co[3], w2[1]))),
          RAdd(RMul(co[2], w[2]), RMul(co[3], w2[2]))>>

RECURSIVE CascadeResponse(_, _, _)
CascadeResponse(secs, w, k) ==
    IF k = 0 THEN <<ROne, RZero>>
    ELSE LET r == CDiv(CPoly(secs[k].B, w), CPoly(secs[k].A, w))
             h == CMul(CascadeResponse(secs, w, k - 1), <<Round(r[1]), Round(r[2])>>)
         IN  <<Round(h[1]), Round(h[2])>>

\* Frequency sampling: the cascade's response at N points of the unit
\* circle, inverse-transformed (real part) to an N-tap kernel.
FsmResponse(secs, N, q) ==
    CascadeResponse(secs, <<Cos2Pi(q, N), RNeg(Sin2Pi(q, N))>>, Len(secs))

FsmTap(secs, N, n) ==
    RMul(Rat(1, N),
         RSum([m \in 1..N |->
             RSub(RMul(FsmResponse(secs, N, m - 1)[1], Cos2Pi((m - 1) * (n - 1), N)),
                  RMul(FsmResponse(secs, N, m - 1)[2], Sin2Pi((m - 1) * (n - 1), N)))]))

RECURSIVE FsmKernelTo(_, _, _)
FsmKernelTo(secs, N, n) ==
    IF n = 0 THEN <<>> ELSE Append(FsmKernelTo(secs, N, n - 1), FsmTap(secs, N, n))

FsmKernel(secs, N) == FsmKernelTo(secs, N, N)

\* self.biquad(input_signal, Bs, As)
biquad_forward(biquad, x, secs) ==
    IF biquad.backend = "lfilter" THEN LFilterCascade(secs, x, Len(secs))
    ELSE convolve(x, <<FsmKernel(secs, biquad.fsm_fir_len)>>, "causal")

(***************************************************************************)
(* The program state.                                                      *)
(*   requested : the arguments of the last __init__ call                   *)
(*   phase     : "new" (no instance yet), "ready" (__init__ returned) or   *)
(*               "failed" (__init__ raised; there is no instance)          *)
(*   self      : the instance's attributes                                 *)
(*   call      : per caller, the method call in flight with its locals     *)
(***************************************************************************)
VARIABLES requested, phase, self, call

vars == <<requested, phase, self, call>>

Callers == {"t1", "t2"}

NoInstance == [class |-> "none"]

IdleCall ==
    [pc |-> "idle", method |-> "none", input_signals |-> None, param |-> None,
     fir |-> None, output_signals |-> None, ret |-> {}, error |-> "none"]

(***************************************************************************)
(* Construction options.  Defaults are those of the __init__ signatures;   *)
(* frequencies are in Hz, NoFreq stands for None.                          *)
(***************************************************************************)
DefaultEps == <<1, 10000000>>

EqChannels == {"mono", "stereo", "midside", "pseudo_midside"}

Options(class, bins, eq_channel, use_filterbank, scale, f_max, sr, window, backend, fsm_fir_len) ==
    [class |-> class, bins |-> bins, eq_channel |-> eq_channel,
     use_filterbank |-> use_filterbank, scale |-> scale, n_filters |-> 3,
     f_min |-> 0, f_max |-> f_max, sr |-> sr, eps |-> DefaultEps,
     window |-> window, backend |-> backend, fsm_fir_len |-> fsm_fir_len]

ZeroPhaseOptions ==
    { Options("ZeroPhaseFIREqualizer", K, "mono", FALSE, "linear", NoFreq, NoFreq,
              OmittedWindow, "fsm", 2) : K \in {1, 2} }
    \cup { Options("ZeroPhaseFIREqualizer", 2, "mono", FALSE, "linear", NoFreq, NoFreq,
                   w, "fsm", 2) :
               w \in { NamedWindow("hann"), NamedWindow("hamming"),
                       ExplicitWindow(<<ROne, RInt(2), ROne>>) } }

NewOptions(bins, eq_channel, use_filterbank, scale, f_max, sr, window) ==
    Options("NewZeroPhaseFIREqualizer", bins, eq_channel, use_filterbank, scale,
            f_max, sr, window, "fsm", 2)

NewZeroPhaseOptions ==
    { NewOptions(2, ch, fb, "linear", 8, 8, NamedWindow("hamming")) :
          ch \in EqChannels \cup {"left_right"}, fb \in BOOLEAN }
    \cup { NewOptions(1, "mono", FALSE, "linear", NoFreq, NoFreq, NamedWindow("hann")),
           NewOptions(2, "stereo", FALSE, "linear", NoFreq, NoFreq,
                      ExplicitWindow(<<ROne, RInt(2), ROne>>)),
           NewOptions(2, "mono", TRUE, "linear", NoFreq, NoFreq, NamedWindow("hann")),
           NewOptions(2, "mono", TRUE, "octave", 8, 8, NamedWindow("hann")),
           NewOptions(2, "midside", FALSE, "linear", NoFreq, NoFreq, NamedWindow("boxcar")),
           NewOptions(1, "stereo", FALSE, "linear", NoFreq, NoFreq,
                      ExplicitWindow(<<ROne, RInt(2), ROne>>)),
           NewOptions(2, "mono", FALSE, "linear", NoFreq, NoFreq,
                      ExplicitWindow(<<ROne, RInt(2), RInt(3)>>)) }

GraphicOptions ==
    { Options("GraphicEqualizer", 0, "mono", FALSE, sc, NoFreq, 44100,
              NamedWindow("hann"), be[1], be[2]) :
          sc \in {"bark", "third_oct"}, be \in {<<"lfilter", 4>>, <<"fsm", 4>>} }
    \cup { Options("GraphicEqualizer", 0, "mono", FALSE, "octave", NoFreq, 44100,
                   NamedWindow("hann"), "fsm", 4),
           Options("GraphicEqualizer", 0, "mono", FALSE, "bark", NoFreq, 44100,
                   NamedWindow("hann"), "sosfilt", 4) }

(***************************************************************************)
(* __init__ of the three equalizers: the attributes each assigns.  An      *)
(* exception raised by a sub-module's constructor leaves no instance.      *)
(***************************************************************************)
\* ZeroPhaseFIREqualizer.__init__(self, num_magnitude_bins): the signature
\* has no window parameter, so a call that passes one raises TypeError
\* before the body runs; the body is ZeroPhaseFIR(num_magnitude_bins), with
\* the synthesizer's default window.
ZeroPhaseFIREqualizer_new(o) ==
    LET f == ZeroPhaseFIR_init(o.bins, NamedWindow("hann"))
    IN  IF o.window.tag # "omitted" THEN [err |-> "TypeError", self |-> NoInstance]
        ELSE IF f.err # "ok" THEN [err |-> f.err, self |-> NoInstance]
        ELSE [err |-> "ok",
              self |-> [class |-> "ZeroPhaseFIREqualizer",
                        num_magnitude_bins |-> o.bins,
                        fir |-> f.obj]]

\* SelectProcess with the two mid/side cases exchanged.
SelectProcess_exchanged(eq_channel) ==
    CASE eq_channel \in {"mono", "stereo"} -> "_process_mono_stereo"
      [] eq_channel = "midside" -> "_process_pseudo_midside"
      [] eq_channel = "pseudo_midside" -> "_process_midside"
      [] OTHER -> "unbound"

\* The match statement of NewZeroPhaseFIREqualizer.__init__: the strategy
\* bound to self.process, or "unbound" when no case matches.
SelectProcess(eq_channel) ==
    CASE eq_channel \in {"mono", "stereo"} -> "_process_mono_stereo"
      [] eq_channel = "midside" -> "_process_midside"
      [] eq_channel = "pseudo_midside" -> "_process_pseudo_midside"
      [] OTHER -> "unbound"

NewZeroPhaseFIREqualizer_new(o) ==
    LET f == IF o.use_filterbank
             THEN ZeroPhaseFilterBankFIR_init(o.bins, o.scale, o.n_filters, o.f_min,
                                              o.f_max, o.sr, o.eps, o.window)
             ELSE ZeroPhaseFIR_init(o.bins, o.window)
        base == [class |-> "NewZeroPhaseFIREqualizer",
                 n_frequency_bins |-> o.bins,
                 n_filters |-> o.n_filters,
                 eq_channel |-> o.eq_channel,
                 eps |-> o.eps,
                 fir |-> f.obj]
        process == SelectProcess(o.eq_channel)
    IN  IF f.err # "ok" THEN [err |-> f.err, self |-> NoInstance]
        ELSE [err |-> "ok",
              self |-> IF process = "unbound" THEN base
                       ELSE [a \in DOMAIN base \cup {"process"} |->
                                IF a = "process" THEN process ELSE base[a]]]

GraphicEqualizer_new(o) ==
    LET g == GraphicEqualizerBiquad_init(o.scale, o.sr)
        b == BiquadFilterBackend_init(o.backend, o.fsm_fir_len)
    IN  IF g.err # "ok" THEN [err |-> g.err, self |-> NoInstance]
        ELSE IF b.err # "ok" THEN [err |-> b.err, self |-> NoInstance]
        ELSE [err |-> "ok",
              self |-> [class |-> "GraphicEqualizer", geq |-> g.obj, biquad |-> b.obj]]

ZeroPhaseFIREqualizer_init ==
    /\ phase = "new"
    /\ \E o \in ZeroPhaseOptions :
           LET r == ZeroPhaseFIREqualizer_new(o)
           IN  /\ requested' = o
               /\ phase' = IF r.err = "ok" THEN "ready" ELSE "failed"
               /\ self' = r.self
    /\ UNCHANGED call

NewZeroPhaseFIREqualizer_init ==
    /\ phase = "new"
    /\ \E o \in NewZeroPhaseOptions :
           LET r == NewZeroPhaseFIREqualizer_new(o)
           IN  /\ requested' = o
               /\ phase' = IF r.err = "ok" THEN "ready" ELSE "failed"
               /\ self' = r.self
    /\ UNCHANGED call

GraphicEqualizer_init ==
    /\ phase = "new"
    /\ \E o \in GraphicOptions :
           LET r == GraphicEqualizer_new(o)
           IN  /\ requested' = o
               /\ phase' = IF r.err = "ok" THEN "ready" ELSE "failed"
               /\ self' = r.self
    /\ UNCHANGED call

(***************************************************************************)
(* The channel-mode strategies of NewZeroPhaseFIREqualizer.  Each returns  *)
(* [err, out]; a mid/side transform of a tensor that has not two channels, *)
(* or a kernel that neither is shared nor pairs with the channels, is a    *)
(* ShapeError.                                                             *)
(***************************************************************************)
Raise(e) == [err |-> e, out |-> None]

Return(y) == [err |-> "ok", out |-> y]

Convolved(x, h) ==
    IF ConvolveCompatible(x, h) THEN Return(convolve(x, h, "zerophase")) ELSE Raise("ShapeError")

_process_mono_stereo(input_signals, fir) == Convolved(input_signals, fir)

\* _process_midside without the transform back to left/right.
_process_midside_untransformed(input_signals, fir) ==
    IF Len(input_signals) # 2 THEN Raise("ShapeError")
    ELSE Convolved(lr_to_ms(input_signals), fir)

_process_midside(input_signals, fir) ==
    IF Len(input_signals) # 2 THEN Raise("ShapeError")
    ELSE LET r == Convolved(lr_to_ms(input_signals), fir)
         IN  IF r.err # "ok" THEN r ELSE Return(ms_to_lr(r.out))

\* _process_pseudo_midside without the transform of the filter.
_process_pseudo_midside_untransformed(input_signals, fir) ==
    IF Len(fir) # 2 THEN Raise("ShapeError")
    ELSE Convolved(input_signals, fir)

\* _process_pseudo_midside with the arguments of convolve exchanged.
_process_pseudo_midside_exchanged(input_signals, fir) ==
    IF Len(fir) # 2 THEN Raise("ShapeError")
    ELSE Convolved(ms_to_lr(fir), input_signals)

_process_pseudo_midside(input_signals, fir) ==
    IF Len(fir) # 2 THEN Raise("ShapeError")
    ELSE Convolved(input_signals, ms_to_lr(fir))

\* self.process(input_signals, fir): the bound method stored at construction.
Process(process, input_signals, fir) ==
    CASE process = "_process_mono_stereo" -> _process_mono_stereo(input_signals, fir)
      [] process = "_process_midside" -> _process_midside(input_signals, fir)
      [] process = "_process_pseudo_midside" -> _process_pseudo_midside(input_signals, fir)

(***************************************************************************)
(* forward, first statement: the filter is designed from the parameters.   *)
(*   ZeroPhaseFIREqualizer     fir = self.fir(log_magnitude)[:, None, :]   *)
(*   NewZeroPhaseFIREqualizer  fir = self.fir(log_magnitude)               *)
(*   GraphicEqualizer          Bs, As = self.geq(log_gains)                *)
(* A per-item parameter vector is the one-row matrix <<vector>>, which is  *)
(* also the one-channel kernel that [:, None, :] makes of the result.      *)
(***************************************************************************)
\* The length of the parameter rows a configuration expects.
ExpectedLength(s) ==
    IF s.class = "GraphicEqualizer" THEN s.geq.num_bands ELSE s.fir.n_params

\* ForwardDesign on parameters first cropped or zero-padded to the expected
\* length, as an inverse transform of fixed size would take them.
ForwardDesign_resizing(s, param) ==
    LET resized == [r \in 1..Len(param) |->
                       [k \in 1..ExpectedLength(s) |->
                           IF k <= Len(param[r]) THEN param[r][k] ELSE 0]]
    IN  IF s.class = "GraphicEqualizer" THEN geq_forward(s.geq, resized)
        ELSE FIR_forward(s.fir, resized)

\* ForwardDesign with every kernel delayed by one tap, circularly.
ForwardDesign_delayed(s, param) ==
    IF s.class = "GraphicEqualizer" THEN geq_forward(s.geq, param)
    ELSE LET r == FIR_forward(s.fir, param)
         IN  IF r.err # "ok" THEN r
             ELSE [err |-> "ok",
                   fir |-> [c \in 1..Len(r.fir) |->
                              [i \in 1..Len(r.fir[c]) |->
                                  r.fir[c][IF i = 1 THEN Len(r.fir[c]) ELSE i - 1]]]]

ForwardDesign(s, param) ==
    CASE s.class = "ZeroPhaseFIREqualizer" -> FIR_forward(s.fir, param)
      [] s.class = "NewZeroPhaseFIREqualizer" -> FIR_forward(s.fir, param)
      [] s.class = "GraphicEqualizer" -> geq_forward(s.geq, param)

(***************************************************************************)
(* forward, second statement: the filter is applied to the signal.         *)
(*   ZeroPhaseFIREqualizer     convolve(input_signals, fir, "zerophase")   *)
(*   NewZeroPhaseFIREqualizer  self.process(input_signals, fir)            *)
(*   GraphicEqualizer          self.biquad(input_signal, Bs, As)           *)
(***************************************************************************)
ZeroPhaseFIREqualizer_apply(s, input_signals, fir) == Convolved(input_signals, fir)

NewZeroPhaseFIREqualizer_apply(s, input_signals, fir) ==
    IF "process" \notin DOMAIN s THEN Raise("AttributeError")
    ELSE Process(s.process, input_signals, fir)

\* GraphicEqualizer_apply with the numerators only: every denominator is 1.
GraphicEqualizer_apply_numerators(s, input_signal, secs) ==
    Return(biquad_forward(s.biquad, input_signal,
                          [k \in 1..Len(secs) |->
                              [B |-> secs[k].B, A |-> <<ROne, RZero, RZero>>]]))

GraphicEqualizer_apply(s, input_signal, secs) ==
    Return(biquad_forward(s.biquad, input_signal, secs))

ForwardApply(s, input_signals, fir) ==
    CASE s.class = "ZeroPhaseFIREqualizer" -> ZeroPhaseFIREqualizer_apply(s, input_signals, fir)
      [] s.class = "NewZeroPhaseFIREqualizer" -> NewZeroPhaseFIREqualizer_apply(s, input_signals, fir)
      [] s.class = "GraphicEqualizer" -> GraphicEqualizer_apply(s, input_signals, fir)

(***************************************************************************)
(* parameter_size: a dictionary, here a set of <<name, per-item shape>>    *)
(* pairs, or the exception the body ends in.                               *)
(***************************************************************************)
ZeroPhaseFIREqualizer_parameter_size(s) ==
    [err |-> "ok", ret |-> {<<"log_magnitude", <<s.num_magnitude_bins>>>>}]

\* Reads self.use_filterbank, which __init__ never assigns; the match on
\* eq_channel binds n_channels for "mono", "stereo" and "midside" only.
NewZeroPhaseFIREqualizer_parameter_size(s) ==
    IF "use_filterbank" \notin DOMAIN s THEN [err |-> "AttributeError", ret |-> {}]
    ELSE LET n_bins == IF s.use_filterbank THEN s.n_filters ELSE s.n_frequency_bins
         IN  CASE s.eq_channel = "mono" -> [err |-> "ok", ret |-> {<<"log_energy", <<1, n_bins>>>>}]
               [] s.eq_channel \in {"stereo", "midside"} ->
                      [err |-> "ok", ret |-> {<<"log_energy", <<2, n_bins>>>>}]
               [] OTHER -> [err |-> "UnboundLocalError", ret |-> {}]

GraphicEqualizer_parameter_size(s) ==
    [err |-> "ok", ret |-> {<<"log_gains", <<2, s.geq.num_bands>>>>}]

parameter_size(s) ==
    CASE s.class = "ZeroPhaseFIREqualizer" -> ZeroPhaseFIREqualizer_parameter_size(s)
      [] s.class = "NewZeroPhaseFIREqualizer" -> NewZeroPhaseFIREqualizer_parameter_size(s)
      [] s.class = "GraphicEqualizer" -> GraphicEqualizer_parameter_size(s)

(***************************************************************************)
(* The callers' inputs: a one-channel signal of three samples and a        *)
(* two-channel signal of two; parameters of every row count and length the            *)
(* configurations expect, and of others.                                   *)
(***************************************************************************)
Ramp(L) == [n \in 1..L |-> RInt(n)]

Fall(L) == [n \in 1..L |-> RInt(2 - n)]

SignalSet == { <<Ramp(3)>>, <<Ramp(2), Fall(2)>> }

FirParamSet ==
    { <<<<0>>>>, <<<<0, 0>>>>, <<<<1, -1>>>>, <<<<0, 1, 0>>>>,
      <<<<0, 0>>, <<0, 0>>>>, <<<<1, 0>>, <<0, -1>>>>, <<<<0, 1, 0>>, <<1, 0, 0>>>> }

Zeros(n) == [k \in 1..n |-> 0]

Alternating(n) == [k \in 1..n |-> IF k % 2 = 1 THEN 5 ELSE -5]

GainParamSet == { <<v>> : v \in { Zeros(BarkBands), Alternating(BarkBands),
                                  Zeros(ThirdOctBands), Alternating(ThirdOctBands) } }

ParamsFor(class) ==
    CASE class = "ZeroPhaseFIREqualizer" -> { p \in FirParamSet : Len(p) = 1 }
      [] class = "NewZeroPhaseFIREqualizer" -> FirParamSet
      [] class = "GraphicEqualizer" -> GainParamSet

(***************************************************************************)
(* The callers' steps.                                                     *)
(***************************************************************************)
SetCall(c, rec) == call' = [call EXCEPT ![c] = rec]

forward_called(c) ==
    /\ phase = "ready"
    /\ call[c].pc = "idle"
    /\ \E x \in SignalSet, p \in ParamsFor(self.class) :
           SetCall(c, [IdleCall EXCEPT !.pc = "design", !.method = "forward",
                                       !.input_signals = x, !.param = p])
    /\ UNCHANGED <<requested, phase, self>>

\* forward_design that also keeps the designed filter on the instance.
forward_design_caching(c) ==
    /\ call[c].pc = "design"
    /\ LET r == ForwardDesign(self, call[c].param)
       IN  /\ IF r.err = "ok"
              THEN SetCall(c, [call[c] EXCEPT !.pc = "apply", !.fir = r.fir])
              ELSE SetCall(c, [call[c] EXCEPT !.pc = "raised", !.error = r.err])
           /\ self' = [a \in DOMAIN self \cup {"last_fir"} |->
                          IF a = "last_fir" THEN r.fir ELSE self[a]]
    /\ UNCHANGED <<requested, phase>>

forward_design(c) ==
    /\ call[c].pc = "design"
    /\ LET r == ForwardDesign(self, call[c].param)
       IN  IF r.err = "ok"
           THEN SetCall(c, [call[c] EXCEPT !.pc = "apply", !.fir = r.fir])
           ELSE SetCall(c, [call[c] EXCEPT !.pc = "raised", !.error = r.err])
    /\ UNCHANGED <<requested, phase, self>>

forward_apply(c) ==
    /\ call[c].pc = "apply"
    /\ LET r == ForwardApply(self, call[c].input_signals, call[c].fir)
       IN  IF r.err = "ok"
           THEN SetCall(c, [call[c] EXCEPT !.pc = "returned", !.output_signals = r.out])
           ELSE SetCall(c, [call[c] EXCEPT !.pc = "raised", !.error = r.err])
    /\ UNCHANGED <<requested, phase, self>>

parameter_size_called(c) ==
    /\ phase = "ready"
    /\ call[c].pc = "idle"
    /\ LET r == parameter_size(self)
       IN  SetCall(c, [IdleCall EXCEPT !.pc = IF r.err = "ok" THEN "returned" ELSE "raised",
                                       !.method = "parameter_size",
                                       !.ret = r.ret,
                                       !.error = IF r.err = "ok" THEN "none" ELSE r.err])
    /\ UNCHANGED <<requested, phase, self>>

\* The caller takes the result (or the exception) and is free to call again.
Finish(c) ==
    /\ call[c].pc \in {"returned", "raised"}
    /\ SetCall(c, IdleCall)
    /\ UNCHANGED <<requested, phase, self>>

Init ==
    /\ requested = Options("none", 0, "mono", FALSE, "linear", NoFreq, NoFreq,
                           NamedWindow("hann"), "fsm", 2)
    /\ phase = "new"
    /\ self = NoInstance
    /\ call = [c \in Callers |-> IdleCall]

Next ==
    \/ ZeroPhaseFIREqualizer_init
    \/ NewZeroPhaseFIREqualizer_init
    \/ GraphicEqualizer_init
    \/ \E c \in Callers : forward_called(c)
    \/ \E c \in Callers : forward_design(c)
    \/ \E c \in Callers : forward_apply(c)
    \/ \E c \in Callers : parameter_size_called(c)
    \/ \E c \in Callers : Finish(c)

Spec == Init /\ [][Next]_vars

(***************************************************************************)
(* What forward requires of its parameters, from its signature and         *)
(* docstring: the argument's name and its per-item shape.                  *)
(***************************************************************************)
ForwardParameters(s) ==
    CASE s.class = "ZeroPhaseFIREqualizer" -> {<<"log_magnitude", <<s.fir.n_params>>>>}
      [] s.class = "NewZeroPhaseFIREqualizer" ->
             {<<"log_magnitude",
                <<IF s.eq_channel = "mono" THEN 1 ELSE 2, s.fir.n_params>>>>}
      [] s.class = "GraphicEqualizer" -> {<<"log_gains", <<s.geq.num_bands>>>>}

ValidConfiguration == phase = "ready" /\ requested.eq_channel \in EqChannels

Forwards(c) == call[c].method = "forward"

Returned(c) == call[c].pc = "returned"

Raised(c) == call[c].pc = "raised"

\* The parameters have the rows and the row length the configuration
\* expects, and the signal has the channels the channel mode pairs.
Compliant(c) ==
    /\ \A r \in 1..Len(call[c].param) : Len(call[c].param[r]) = ExpectedLength(self)
    /\ self.class = "NewZeroPhaseFIREqualizer" =>
           /\ Len(call[c].param) = (IF self.eq_channel = "mono" THEN 1 ELSE 2)
           /\ self.eq_channel # "mono" => Len(call[c].input_signals) = 2

(***************************************************************************)
(* C1.  For every equalizer and every valid construction configuration,    *)
(* parameter_size() returns a name-to-shape mapping and never ends in an   *)
(* error.                                                                  *)
(***************************************************************************)
C1_ParameterSizeReturns ==
    \A c \in Callers :
        (ValidConfiguration /\ call[c].method = "parameter_size") =>
            /\ Returned(c)
            /\ call[c].ret # {}

(***************************************************************************)
(* C2.  The mapping parameter_size() returns names exactly the parameter   *)
(* arguments of forward, each with the per-item shape forward documents.   *)
(***************************************************************************)
C2_ParameterSizeCompliant ==
    \A c \in Callers :
        (ValidConfiguration /\ call[c].method = "parameter_size" /\ Returned(c)) =>
            call[c].ret = ForwardParameters(self)

(***************************************************************************)
(* C3.  NewZeroPhaseFIREqualizer selects its strategy at construction from *)
(* eq_channel (mono or stereo: direct convolution; midside: mid/side;      *)
(* pseudo_midside: pseudo-mid/side); whatever calls have run, the selected *)
(* strategy is still that one, and every forward call that reaches its     *)
(* second statement ends as that strategy ends on the call's signal and    *)
(* kernel.                                                                 *)
(***************************************************************************)
StrategyOf(eq_channel) ==
    CASE eq_channel = "mono" -> "_process_mono_stereo"
      [] eq_channel = "stereo" -> "_process_mono_stereo"
      [] eq_channel = "midside" -> "_process_midside"
      [] eq_channel = "pseudo_midside" -> "_process_pseudo_midside"

C3_StrategyFixedAtConstruction ==
    (ValidConfiguration /\ self.class = "NewZeroPhaseFIREqualizer") =>
        /\ "process" \in DOMAIN self
        /\ self.process = StrategyOf(requested.eq_channel)
        /\ \A c \in Callers :
               (Forwards(c) /\ call[c].fir # None /\ call[c].pc \in {"returned", "raised"}) =>
                   LET r == Process(StrategyOf(requested.eq_channel),
                                    call[c].input_signals, call[c].fir)
                   IN  /\ Returned(c) <=> r.err = "ok"
                       /\ Returned(c) => call[c].output_signals = r.out
                       /\ Raised(c) => call[c].error = r.err

C3_Witness ==
    /\ self.class = "NewZeroPhaseFIREqualizer"
    /\ phase = "ready"
    /\ requested.eq_channel = "midside"
    /\ Forwards("t1") /\ Returned("t1")
    /\ Forwards("t2") /\ Raised("t2") /\ call["t2"].fir # None

(***************************************************************************)
(* C4.  Constructing NewZeroPhaseFIREqualizer with an eq_channel outside   *)
(* {mono, stereo, midside, pseudo_midside} fails in __init__: no instance  *)
(* exists afterwards and forward is never called on one.                   *)
(***************************************************************************)
C4_InvalidChannelFailsConstruction ==
    (requested.class = "NewZeroPhaseFIREqualizer" /\ requested.eq_channel \notin EqChannels) =>
        /\ phase # "ready"
        /\ self = NoInstance
        /\ \A c \in Callers : ~Forwards(c)

(***************************************************************************)
(* C5.  No step of a forward call, returning or raising, changes the       *)
(* instance; and every forward call, whatever ran before it or runs beside *)
(* it, ends as the same call ends on an instance freshly constructed with  *)
(* the same options, which for compliant inputs on a valid configuration   *)
(* is a normal return.                                                     *)
(***************************************************************************)
FreshInstance(o) ==
    CASE o.class = "ZeroPhaseFIREqualizer" -> ZeroPhaseFIREqualizer_new(o).self
      [] o.class = "NewZeroPhaseFIREqualizer" -> NewZeroPhaseFIREqualizer_new(o).self
      [] o.class = "GraphicEqualizer" -> GraphicEqualizer_new(o).self

FreshForward(o, input_signals, param) ==
    LET s == FreshInstance(o)
        d == ForwardDesign(s, param)
    IN  IF d.err # "ok" THEN Raise(d.err) ELSE ForwardApply(s, input_signals, d.fir)

EndsAsOnFreshInstance(c) ==
    LET r == FreshForward(requested, call[c].input_signals, call[c].param)
    IN  /\ Returned(c) <=> r.err = "ok"
        /\ Returned(c) => call[c].output_signals = r.out
        /\ Raised(c) => call[c].error = r.err
        /\ (ValidConfiguration /\ Compliant(c)) => Returned(c)

C5_ForwardLeavesConfiguration ==
    /\ [][phase = "ready" => (phase' = "ready" /\ self' = self /\ requested' = requested)]_vars
    /\ [](\A c \in Callers :
              (Forwards(c) /\ call[c].pc \in {"returned", "raised"}) => EndsAsOnFreshInstance(c))

C5_Witness ==
    /\ phase = "ready"
    /\ Forwards("t1") /\ Raised("t1")
    /\ Forwards("t2") /\ Returned("t2") /\ Compliant("t2")

(***************************************************************************)
(* C6.  A forward call that returns, returns a signal of the shape of its  *)
(* input: as many channels and as many samples, in every channel mode;     *)
(* and a call with compliant inputs on a valid configuration returns.      *)
(***************************************************************************)
C6_OutputShapeIsInputShape ==
    \A c \in Callers :
        Forwards(c) =>
            /\ Returned(c) => Shape(call[c].output_signals) = Shape(call[c].input_signals)
            /\ (ValidConfiguration /\ Compliant(c)) => ~Raised(c)

C6_Witness ==
    /\ self.class = "NewZeroPhaseFIREqualizer"
    /\ requested.eq_channel = "pseudo_midside"
    /\ \E c \in Callers :
           /\ Forwards(c) /\ Returned(c)
           /\ Shape(call[c].input_signals) = <<2, 2>>
           /\ Shape(call[c].fir) = <<2, 3>>

(***************************************************************************)
(* C7.  A forward call whose parameter rows have not the length the        *)
(* configuration derives (num_magnitude_bins, n_frequency_bins, n_filters, *)
(* the number of bands) ends in ShapeError, and nothing of an output has   *)
(* been produced when it does.                                             *)
(***************************************************************************)
WrongLength(c) ==
    \E r \in 1..Len(call[c].param) : Len(call[c].param[r]) # ExpectedLength(self)

C7_WrongLengthIsShapeError ==
    \A c \in Callers :
        (Forwards(c) /\ WrongLength(c) /\ call[c].pc # "design") =>
            /\ Raised(c)
            /\ call[c].error = "ShapeError"
            /\ call[c].fir = None
            /\ call[c].output_signals = None

C7_Witness ==
    /\ self.class = "NewZeroPhaseFIREqualizer"
    /\ requested.use_filterbank
    /\ \E c \in Callers :
           /\ Forwards(c) /\ Raised(c) /\ WrongLength(c)
           /\ call[c].error = "ShapeError"

(***************************************************************************)
(* The channel strategies as functions of a stereo signal and a two-row    *)
(* kernel: self.process(input_signals, fir) on tensors drawn from bounded  *)
(* sets, on an instance in mid/side or pseudo-mid/side mode.               *)
(***************************************************************************)
SampleMax == 1

TapMax == 1

StereoSignals ==
    LET ch == { <<RInt(a), RInt(b)>> : a, b \in 0..SampleMax }
    IN  { <<l, r>> : l, r \in ch }

StereoKernels ==
    LET ch == { <<RInt(a), RInt(b), RInt(a)>> : a, b \in 0..TapMax }
    IN  { <<m, s>> : m, s \in ch }

InitMidside ==
    /\ requested \in { NewOptions(2, ch, FALSE, "linear", NoFreq, NoFreq, NamedWindow("hamming")) :
                          ch \in {"midside", "pseudo_midside"} }
    /\ phase = "ready"
    /\ self = NewZeroPhaseFIREqualizer_new(requested).self
    /\ \E x \in StereoSignals, f \in StereoKernels :
           call = [c \in Callers |->
                      IF c = "t1"
                      THEN [IdleCall EXCEPT !.pc = "apply", !.method = "forward",
                                            !.input_signals = x, !.fir = f]
                      ELSE IdleCall]

NextMidside ==
    \/ \E c \in Callers : forward_apply(c)
    \/ \E c \in Callers : Finish(c)

SpecMidside == InitMidside /\ [][NextMidside]_vars

Channel(x, c) == <<x[c]>>

Half(x) == [c \in 1..Len(x) |-> [n \in 1..Len(x[c]) |-> RMul(Rat(1, 2), x[c][n])]]

Plus(x, y) == [c \in 1..Len(x) |-> [n \in 1..Len(x[c]) |-> RAdd(x[c][n], y[c][n])]]

Silent(x) == \A c \in 1..Len(x) : \A n \in 1..Len(x[c]) : x[c][n] = RZero

PseudoReturned(c) ==
    /\ self.class = "NewZeroPhaseFIREqualizer" /\ self.eq_channel = "pseudo_midside"
    /\ Forwards(c) /\ Returned(c)

(***************************************************************************)
(* C8 as stated: for every stereo signal and every two-row filter, what    *)
(* pseudo-mid/side processing returns is what mid/side processing returns. *)
(***************************************************************************)
C8_PseudoEqualsMidside ==
    \A c \in Callers :
        PseudoReturned(c) =>
            call[c].output_signals = _process_midside(call[c].input_signals, call[c].fir).out

(***************************************************************************)
(* C8, amended.  With <<fL, fR>> = ms_to_lr(f), pseudo-mid/side processing *)
(* returns <<l * fL, r * fR>>, each channel filtered alone, while mid/side *)
(* processing returns <<(l * fL + r * fR) / 2, (l * fR + r * fL) / 2>>;    *)
(* the two are equal exactly when l * fL = r * fR and                      *)
(* l * fR + r * fL = 2 (r * fR), as when both channels are equal and the   *)
(* side filter is zero, and not in general.                                *)
(***************************************************************************)
C8_PseudoMidsideRelation ==
    \A c \in Callers :
        PseudoReturned(c) =>
            LET x == call[c].input_signals
                fLR == ms_to_lr(call[c].fir)
                lfL == convolve(Channel(x, 1), Channel(fLR, 1), "zerophase")
                rfR == convolve(Channel(x, 2), Channel(fLR, 2), "zerophase")
                lfR == convolve(Channel(x, 1), Channel(fLR, 2), "zerophase")
                rfL == convolve(Channel(x, 2), Channel(fLR, 1), "zerophase")
                midside == _process_midside(x, call[c].fir).out
            IN  /\ call[c].output_signals = <<lfL[1], rfR[1]>>
                /\ midside = <<Half(Plus(lfL, rfR))[1], Half(Plus(lfR, rfL))[1]>>
                /\ (call[c].output_signals = midside) <=>
                       (lfL = rfR /\ Plus(lfR, rfL) = Plus(rfR, rfR))

C8_Witness ==
    \E c \in Callers :
        /\ PseudoReturned(c)
        /\ ~Silent(call[c].input_signals)
        /\ ~Silent(Channel(call[c].fir, 1))
        /\ call[c].input_signals[1] = call[c].input_signals[2]
        /\ Silent(Channel(call[c].fir, 2))
        /\ call[c].output_signals = _process_midside(call[c].input_signals, call[c].fir).out

(***************************************************************************)
(* C9.  ms_to_lr(lr_to_ms(x)) = x and lr_to_ms(ms_to_lr(x)) = x for every  *)
(* stereo signal x, and mid/side processing with the identity filter on    *)
(* both mid and side returns its input.                                    *)
(***************************************************************************)
Delta == <<RZero, ROne, RZero>>

C9_MidsideRoundTrip ==
    \A c \in Callers :
        (Forwards(c) /\ self.class = "NewZeroPhaseFIREqualizer"
            /\ call[c].fir # None /\ Len(call[c].input_signals) = 2) =>
            LET x == call[c].input_signals
            IN  /\ ms_to_lr(lr_to_ms(x)) = x
                /\ lr_to_ms(ms_to_lr(x)) = x
                /\ (self.eq_channel = "midside" /\ call[c].fir = <<Delta, Delta>>) =>
                       /\ ~Raised(c)
                       /\ Returned(c) => call[c].output_signals = x

C9_Witness ==
    \E c \in Callers :
        /\ self.class = "NewZeroPhaseFIREqualizer" /\ self.eq_channel = "midside"
        /\ Forwards(c) /\ Returned(c)
        /\ call[c].fir = <<Delta, Delta>>
        /\ call[c].input_signals[1] # call[c].input_signals[2]
        /\ call[c].output_signals = call[c].input_signals

(***************************************************************************)
(* C10.  GraphicEqualizer with all-zero log_gains: the design divides by   *)
(* no zero and ends normally, every section it yields has its numerator    *)
(* equal to its denominator with a nonzero leading coefficient, and the    *)
(* exact recursive backend returns the input unchanged.                    *)
(***************************************************************************)
ZeroGains(c) ==
    /\ self.class = "GraphicEqualizer"
    /\ Forwards(c)
    /\ call[c].param = <<Zeros(self.geq.num_bands)>>

C10_ZeroGainsIsIdentity ==
    \A c \in Callers :
        (ZeroGains(c) /\ call[c].pc # "design") =>
            /\ ~Raised(c)
            /\ Len(call[c].fir) = self.geq.num_bands
            /\ \A k \in 1..Len(call[c].fir) :
                   /\ call[c].fir[k].B = call[c].fir[k].A
                   /\ call[c].fir[k].A[1] # RZero
            /\ (Returned(c) /\ self.biquad.backend = "lfilter") =>
                   call[c].output_signals = call[c].input_signals

C10_Witness ==
    \E c \in Callers :
        /\ ZeroGains(c) /\ Returned(c)
        /\ self.biquad.backend = "lfilter"
        /\ self.geq.scale = "third_oct"
        /\ call[c].output_signals = call[c].input_signals

(***************************************************************************)
(* C11.  Whatever the log-magnitudes, when the window is symmetric every   *)
(* kernel the zero-phase synthesizer yields, and the kernel the equalizer  *)
(* convolves with, is symmetric about its centre tap:                      *)
(* h[centre + n] = h[centre - n] for every n.                              *)
(***************************************************************************)
Symmetric(h) == \A i \in 1..Len(h) : h[i] = h[Len(h) + 1 - i]

Designed(c) ==
    /\ self.class \in {"ZeroPhaseFIREqualizer", "NewZeroPhaseFIREqualizer"}
    /\ Forwards(c)
    /\ call[c].fir # None

C11_KernelIsSymmetric ==
    \A c \in Callers :
        (Designed(c) /\ Symmetric(self.fir.window)) =>
            /\ \A r \in 1..Len(call[c].fir) :
                   /\ Len(call[c].fir[r]) = self.fir.fir_len
                   /\ Symmetric(call[c].fir[r])
            /\ (self.class = "NewZeroPhaseFIREqualizer" /\ Len(call[c].fir) = 2) =>
                   \A r \in 1..2 : Symmetric(ms_to_lr(call[c].fir)[r])

C11_Witness ==
    \E c \in Callers :
        /\ Designed(c) /\ Returned(c)
        /\ Symmetric(self.fir.window)
        /\ call[c].param[1] = <<1, -1>>
        /\ Len(call[c].fir[1]) = 3
        /\ call[c].fir[1][1] # RZero
        /\ call[c].fir[1][1] # call[c].fir[1][2]

(***************************************************************************)
(* C12.  ZeroPhaseFIREqualizer takes a window option at construction, a    *)
(* window name or an explicit window, hann when omitted; construction with *)
(* any valid window succeeds and the synthesizer it builds uses that       *)
(* window.                                                                 *)
(***************************************************************************)
C12_WindowOptionAccepted ==
    (requested.class = "ZeroPhaseFIREqualizer" /\ phase # "new") =>
        LET n == 2 * requested.bins - 1
        IN  IF requested.window.tag = "omitted"
            THEN phase = "ready" /\ self.fir.window = WindowCoeffs("hann", n)
            ELSE WindowValid(requested.window, n) =>
                     /\ phase = "ready"
                     /\ self.fir.window = get_window(requested.window, n)

(***************************************************************************)
(* grafx.processors.nonlinear: the distortion processors.                  *)
(*                                                                         *)
(* Tensors keep their batch dimension: a signal is B x C x L, a parameter  *)
(* B x n, both as nested sequences; an omitted optional argument is None.  *)
(* Values are rationals quantized to DistPrecision fractional bits after   *)
(* each transcendental function.  Log-domain parameters are integers in    *)
(* units of ln 2, as for the equalizers.                                   *)
(***************************************************************************)
DistPrecision == 6

Quantize(q) ==
    LET s == 2 ^ DistPrecision
        m == (2 * q[1] * s + q[2]) \div (2 * q[2])
    IN  Rat(m, s)

\* torch.tanh: the (3, 2) Pade approximant, which reaches 1 at 3, clipped.
Tanh(q) ==
    IF RAbs(q)[1] >= 3 * RAbs(q)[2] THEN (IF q[1] < 0 THEN RInt(-1) ELSE ROne)
    ELSE LET q2 == RMul(q, q)
         IN  Quantize(RDiv(RMul(q, RAdd(RInt(27), q2)),
                           RAdd(RInt(27), RMul(RInt(9), q2))))

\* torch.sigmoid(z) = (1 + tanh(z / 2)) / 2.
Sigmoid(q) == RMul(Rat(1, 2), RAdd(ROne, Tanh(RMul(Rat(1, 2), q))))

\* Elementwise maps over a B x C x L signal and a B x n parameter.
Map3(x, F(_)) ==
    [b \in 1..Len(x) |-> [c \in 1..Len(x[b]) |-> [n \in 1..Len(x[b][c]) |-> F(x[b][c][n])]]]

Map2(p, F(_)) == [b \in 1..Len(p) |-> [k \in 1..Len(p[b]) |-> F(p[b][k])]]

Shape3(x) == <<Len(x), Len(x[1]), Len(x[1][1])>>

Shape2(p) == <<Len(p), Len(p[1])>>

\* input_signals - input_signals.mean(-1, keepdims=True)
RemoveDC(x) ==
    [b \in 1..Len(x) |-> [c \in 1..Len(x[b]) |->
        LET mean == RMul(Rat(1, Len(x[b][c])), RSum(x[b][c]))
        IN  [n \in 1..Len(x[b][c]) |-> RSub(x[b][c][n], mean)]]]

\* signal * gain.unsqueeze(-1) for a B x 1 gain: B x C x L times B x 1 x 1.
Broadcasts(x, g) == Len(g[1]) = 1 /\ Len(g) \in {1, Len(x)}

Scaled(x, g) ==
    [b \in 1..Len(x) |-> [c \in 1..Len(x[b]) |-> [n \in 1..Len(x[b][c]) |->
        RMul(x[b][c][n], g[IF Len(g) = 1 THEN 1 ELSE b][1])]]]

\* The outcome of a forward call: the exception or the returned tensor, and
\* the optional arguments the call has read.
Failed(e, read) == [err |-> e, out |-> None, read |-> read]

Done(y, read) == [err |-> "ok", out |-> y, read |-> read]

(***************************************************************************)
(* TanhDistortion.forward.                                                 *)
(***************************************************************************)
TanhDistortion_forward(s, input_signals, a) ==
    LET x1 == IF s.remove_dc THEN RemoveDC(input_signals) ELSE input_signals
        r1 == IF s.pre_post_gain THEN {"log_pre_gain"} ELSE {}
        r2 == r1 \cup (IF s.use_bias THEN {"bias"} ELSE {})
        r3 == r2 \cup (IF s.pre_post_gain /\ ~s.inverse_post_gain
                       THEN {"log_post_gain"} ELSE {})
    IN  IF s.pre_post_gain /\ a.log_pre_gain = None THEN Failed("TypeError", r1)
        ELSE IF s.pre_post_gain /\ ~Broadcasts(x1, a.log_pre_gain)
        THEN Failed("RuntimeError", r1)
        ELSE
        LET pre_gain == IF s.pre_post_gain THEN Map2(a.log_pre_gain, Exp) ELSE None
            x2 == IF s.pre_post_gain THEN Scaled(x1, pre_gain) ELSE x1
        IN  IF s.use_bias /\ a.bias = None THEN Failed("AttributeError", r2)
            ELSE IF s.use_bias /\ ~Broadcasts(x2, a.bias) THEN Failed("RuntimeError", r2)
            ELSE
            LET y == IF s.use_bias
                     THEN [b \in 1..Len(x2) |-> [c \in 1..Len(x2[b]) |->
                              [n \in 1..Len(x2[b][c]) |->
                                  LET bs == RInt(a.bias[IF Len(a.bias) = 1 THEN 1 ELSE b][1])
                                  IN  RSub(Tanh(RAdd(x2[b][c][n], bs)), Tanh(bs))]]]
                     ELSE Map3(x2, Tanh)
            IN  IF ~s.pre_post_gain THEN Done(y, r3)
                ELSE IF s.inverse_post_gain
                THEN Done(Scaled(y, Map2(a.log_pre_gain, LAMBDA v : Exp(-v))), r3)
                ELSE IF a.log_post_gain = None THEN Failed("TypeError", r3)
                ELSE IF ~Broadcasts(y, a.log_post_gain) THEN Failed("RuntimeError", r3)
                ELSE Done(Scaled(y, Map2(a.log_post_gain, Exp)), r3)

(***************************************************************************)
(* PiecewiseTanhDistortion.forward and apply_distortion.                   *)
(***************************************************************************)
\* t.unsqueeze(-1) of a B x n tensor: B x n x 1.
Unsqueeze(t) == [b \in 1..Len(t) |-> [k \in 1..Len(t[b]) |-> <<t[b][k]>>]]

\* t.split(1, dim=-1) of a B x n x m tensor: m chunks, each B x n x 1.
SplitLast(t) ==
    [j \in 1..Len(t[1][1]) |->
        [b \in 1..Len(t) |-> [k \in 1..Len(t[b]) |-> <<t[b][k][j]>>]]]

\* The three branches of the nonlinearity on one sample, with the
\* coefficients as apply_distortion computes them.
PiecewiseSample(u, kp, kn, gp, gn) ==
    LET ap == RDiv(RSub(ROne, Tanh(kp)), gp)
        an == RDiv(RSub(ROne, Tanh(kn)), gn)
        bp == Tanh(kp)
        bn == RNeg(Tanh(kn))
        above == RSub(u, kp)[1] > 0
        below == RAdd(u, kn)[1] < 0
    IN  IF above THEN RAdd(RMul(ap, Tanh(RMul(gp, RSub(u, kp)))), bp)
        ELSE IF below THEN RAdd(RMul(an, Tanh(RMul(gn, RAdd(u, kn)))), bn)
        ELSE Tanh(u)

\* apply_distortion: both tensors are unsqueezed, split along the new last
\* dimension, and the chunks unpacked into two names each.
PiecewiseTanhDistortion_apply_distortion(input_signals, hardness, threshold) ==
    LET ks == SplitLast(Unsqueeze(threshold))
        gs == SplitLast(Unsqueeze(hardness))
    IN  IF Len(ks) # 2 \/ Len(gs) # 2 THEN [err |-> "ValueError", out |-> None]
        ELSE LET kn == ks[1]
                 kp == ks[2]
                 gp == gs[1]
                 gn == gs[2]
             IN  [err |-> "ok",
                  out |-> [b \in 1..Len(input_signals) |->
                              [c \in 1..Len(input_signals[b]) |->
                                  [n \in 1..Len(input_signals[b][c]) |->
                                      PiecewiseSample(input_signals[b][c][n],
                                                      kp[b][1][1], kn[b][1][1],
                                                      gp[b][1][1], gn[b][1][1])]]]]

PiecewiseTanhDistortion_forward(s, input_signals, a) ==
    LET x1 == IF s.remove_dc THEN RemoveDC(input_signals) ELSE input_signals
        r1 == IF s.pre_post_gain THEN {"log_pre_gain"} ELSE {}
        r3 == r1 \cup (IF s.pre_post_gain /\ ~s.inverse_post_gain
                       THEN {"log_post_gain"} ELSE {})
    IN  IF s.pre_post_gain /\ a.log_pre_gain = None THEN Failed("TypeError", r1)
        ELSE IF s.pre_post_gain /\ ~Broadcasts(x1, a.log_pre_gain)
        THEN Failed("RuntimeError", r1)
        ELSE
        LET x2 == IF s.pre_post_gain THEN Scaled(x1, Map2(a.log_pre_gain, Exp)) ELSE x1
            hardness == Map2(a.log_hardness, Exp)
            threshold == Map2(a.z_threshold, LAMBDA z : Sigmoid(RInt(z)))
            d == PiecewiseTanhDistortion_apply_distortion(x2, hardness, threshold)
        IN  IF d.err # "ok" THEN Failed(d.err, r1)
            ELSE IF ~s.pre_post_gain THEN Done(d.out, r3)
            ELSE IF s.inverse_post_gain
            THEN Done(Scaled(d.out, Map2(a.log_pre_gain, LAMBDA v : Exp(-v))), r3)
            ELSE IF a.log_post_gain = None THEN Failed("TypeError", r3)
            ELSE IF ~Broadcasts(d.out, a.log_post_gain) THEN Failed("RuntimeError", r3)
            ELSE Done(Scaled(d.out, Map2(a.log_post_gain, Exp)), r3)

RECURSIVE IntPowR(_, _)
IntPowR(u, k) == IF k = 0 THEN ROne ELSE RMul(u, IntPowR(u, k - 1))

(***************************************************************************)
(* PowerDistortion.forward: sum over k < max_order of                      *)
(* tanh(basis_weights)[k] * input^k, the powers passed through tanh when   *)
(* use_tanh.  The powers (max_order x B x C x L) and the transposed        *)
(* weights (K x B x 1 x 1) must broadcast.                                 *)
(***************************************************************************)
PowerDistortion_forward(s, input_signals, a) ==
    LET x1 == IF s.remove_dc THEN RemoveDC(input_signals) ELSE input_signals
        r1 == IF s.pre_gain THEN {"log_pre_gain"} ELSE {}
    IN  IF s.pre_gain /\ a.log_pre_gain = None THEN Failed("TypeError", r1)
        ELSE IF s.pre_gain /\ ~Broadcasts(x1, a.log_pre_gain) THEN Failed("RuntimeError", r1)
        ELSE
        LET x2 == IF s.pre_gain THEN Scaled(x1, Map2(a.log_pre_gain, Exp)) ELSE x1
            w == Map2(a.basis_weights, LAMBDA v : Tanh(RInt(v)))
            power(u, k) == IF k = 0 THEN ROne ELSE IF k = 1 THEN u ELSE IntPowR(u, k)
        IN  IF Len(w[1]) \notin {1, s.max_order} \/ Len(w) \notin {1, Len(x2)}
            THEN Failed("RuntimeError", r1)
            ELSE Done([b \in 1..Len(x2) |-> [c \in 1..Len(x2[b]) |->
                          [n \in 1..Len(x2[b][c]) |->
                              RSum([k \in 1..s.max_order |->
                                  LET pw == power(x2[b][c][n], k - 1)
                                      wk == w[IF Len(w) = 1 THEN 1 ELSE b]
                                             [IF Len(w[1]) = 1 THEN 1 ELSE k]
                                  IN  RMul(IF s.use_tanh THEN Tanh(pw) ELSE pw, wk)])]]],
                      r1)

(***************************************************************************)
(* ChebyshevDistortion.forward and apply_distortion.  The first statement  *)
(* of apply_distortion calls basis_weights.shape, a torch.Size, which is   *)
(* not callable.                                                           *)
(***************************************************************************)
RECURSIVE ChebyshevT(_, _)
ChebyshevT(u, k) ==
    IF k = 0 THEN ROne
    ELSE IF k = 1 THEN u
    ELSE RSub(RMul(RMul(RInt(2), u), ChebyshevT(u, k - 1)), ChebyshevT(u, k - 2))

SizeIsCallable == FALSE

ChebyshevDistortion_apply_distortion(input_signals, basis_weights, use_tanh) ==
    IF ~SizeIsCallable THEN [err |-> "TypeError", out |-> None]
    ELSE LET max_order == Len(basis_weights[1])
         IN  [err |-> "ok",
              out |-> [b \in 1..Len(input_signals) |->
                          [c \in 1..Len(input_signals[b]) |->
                              [n \in 1..Len(input_signals[b][c]) |->
                                  RSum([k \in 1..max_order |->
                                      LET t == ChebyshevT(input_signals[b][c][n], k - 1)
                                      IN  RMul(IF use_tanh THEN Tanh(t) ELSE t,
                                               basis_weights[b][k])])]]]]

ChebyshevDistortion_forward(s, input_signals, a) ==
    LET x1 == IF s.remove_dc THEN RemoveDC(input_signals) ELSE input_signals
        r1 == IF s.pre_gain THEN {"log_pre_gain"} ELSE {}
    IN  IF s.pre_gain /\ a.log_pre_gain = None THEN Failed("TypeError", r1)
        ELSE IF s.pre_gain /\ ~Broadcasts(x1, a.log_pre_gain) THEN Failed("RuntimeError", r1)
        ELSE
        LET x2 == IF s.pre_gain THEN Scaled(x1, Map2(a.log_pre_gain, Exp)) ELSE x1
            w == Map2(a.basis_weights, LAMBDA v : Tanh(RInt(v)))
            d == ChebyshevDistortion_apply_distortion(x2, w, s.use_tanh)
        IN  IF d.err # "ok" THEN Failed(d.err, r1) ELSE Done(d.out, r1)

(***************************************************************************)
(* parameter_size of the distortion processors.  A returned dictionary is  *)
(* [type |-> "dict", items |-> {<<name, size>>, ...}]; the literal         *)
(* {"basis_weights", self.max_order} of PowerDistortion and                *)
(* ChebyshevDistortion is a set of a string and an integer, on which the   *)
(* item assignment size["log_pre_gain"] = 1 raises TypeError.              *)
(***************************************************************************)
Dict(items) == [type |-> "dict", items |-> items]

SetLiteral(names, numbers) == [type |-> "set", names |-> names, numbers |-> numbers]

Ret(v) == [err |-> "ok", ret |-> v]

RetRaise(e) == [err |-> e, ret |-> {}]

TanhDistortion_parameter_size(s) ==
    Ret(Dict({<<"log_hardness", 2>>, <<"z_threshold", 2>>}
             \cup (IF s.pre_post_gain THEN {<<"log_pre_gain", 1>>} ELSE {})
             \cup (IF s.pre_post_gain /\ ~s.inverse_post_gain
                   THEN {<<"log_post_gain", 1>>} ELSE {})))

PiecewiseTanhDistortion_parameter_size(s) ==
    Ret(Dict({<<"log_hardness", 2>>, <<"z_threshold", 2>>}
             \cup (IF s.pre_post_gain THEN {<<"log_pre_gain", 1>>} ELSE {})
             \cup (IF s.pre_post_gain /\ ~s.inverse_post_gain
                   THEN {<<"log_post_gain", 1>>} ELSE {})))

PowerDistortion_parameter_size(s) ==
    IF s.pre_gain THEN RetRaise("TypeError")
    ELSE Ret(SetLiteral({"basis_weights"}, {s.max_order}))

ChebyshevDistortion_parameter_size(s) ==
    IF s.pre_gain THEN RetRaise("TypeError")
    ELSE Ret(SetLiteral({"basis_weights"}, {s.max_order}))

distortion_parameter_size(s) ==
    CASE s.class = "TanhDistortion" -> TanhDistortion_parameter_size(s)
      [] s.class = "PiecewiseTanhDistortion" -> PiecewiseTanhDistortion_parameter_size(s)
      [] s.class = "PowerDistortion" -> PowerDistortion_parameter_size(s)
      [] s.class = "ChebyshevDistortion" -> ChebyshevDistortion_parameter_size(s)

distortion_forward(s, input_signals, a) ==
    CASE s.class = "TanhDistortion" -> TanhDistortion_forward(s, input_signals, a)
      [] s.class = "PiecewiseTanhDistortion" -> PiecewiseTanhDistortion_forward(s, input_signals, a)
      [] s.class = "PowerDistortion" -> PowerDistortion_forward(s, input_signals, a)
      [] s.class = "ChebyshevDistortion" -> ChebyshevDistortion_forward(s, input_signals, a)

(***************************************************************************)
(* __init__ of the distortion processors and the options drawn.            *)
(***************************************************************************)
TanhOptions ==
    { [class |-> "TanhDistortion", pre_post_gain |-> p, inverse_post_gain |-> i,
       remove_dc |-> d, use_bias |-> u] : p, i, d, u \in BOOLEAN }

PiecewiseOptions ==
    { [class |-> "PiecewiseTanhDistortion", pre_post_gain |-> p, inverse_post_gain |-> i,
       remove_dc |-> d] : p, i, d \in BOOLEAN }

MaxOrder == 3

BasisOptions(class) ==
    { [class |-> class, max_order |-> k, pre_gain |-> g, remove_dc |-> FALSE,
       use_tanh |-> t] : k \in 1..MaxOrder, g, t \in BOOLEAN }
    \cup { [class |-> class, max_order |-> 2, pre_gain |-> TRUE, remove_dc |-> TRUE,
            use_tanh |-> FALSE] }

TanhDistortion_new(o) ==
    [err |-> "ok",
     self |-> [class |-> "TanhDistortion", pre_post_gain |-> o.pre_post_gain,
               inverse_post_gain |-> o.inverse_post_gain, remove_dc |-> o.remove_dc,
               use_bias |-> o.use_bias]]

PiecewiseTanhDistortion_new(o) ==
    [err |-> "ok",
     self |-> [class |-> "PiecewiseTanhDistortion", pre_post_gain |-> o.pre_post_gain,
               inverse_post_gain |-> o.inverse_post_gain, remove_dc |-> o.remove_dc]]

PowerDistortion_new(o) ==
    IF ~(o.max_order > 1) THEN [err |-> "AssertionError", self |-> NoInstance]
    ELSE [err |-> "ok",
          self |-> [class |-> "PowerDistortion", pre_gain |-> o.pre_gain,
                    max_order |-> o.max_order, remove_dc |-> o.remove_dc,
                    use_tanh |-> o.use_tanh,
                    arange |-> [k \in 1..o.max_order |-> k - 1]]]

ChebyshevDistortion_new(o) ==
    IF ~(o.max_order > 1) THEN [err |-> "AssertionError", self |-> NoInstance]
    ELSE [err |-> "ok",
          self |-> [class |-> "ChebyshevDistortion", pre_gain |-> o.pre_gain,
                    max_order |-> o.max_order, remove_dc |-> o.remove_dc,
                    use_tanh |-> o.use_tanh]]

TanhDistortion_init ==
    /\ phase = "new"
    /\ \E o \in TanhOptions :
           /\ requested' = o
           /\ phase' = "ready"
           /\ self' = TanhDistortion_new(o).self
    /\ UNCHANGED call

PiecewiseTanhDistortion_init ==
    /\ phase = "new"
    /\ \E o \in PiecewiseOptions :
           /\ requested' = o
           /\ phase' = "ready"
           /\ self' = PiecewiseTanhDistortion_new(o).self
    /\ UNCHANGED call

PowerDistortion_init ==
    /\ phase = "new"
    /\ \E o \in BasisOptions("PowerDistortion") :
           LET r == PowerDistortion_new(o)
           IN  /\ requested' = o
               /\ phase' = IF r.err = "ok" THEN "ready" ELSE "failed"
               /\ self' = r.self
    /\ UNCHANGED call

ChebyshevDistortion_init ==
    /\ phase = "new"
    /\ \E o \in BasisOptions("ChebyshevDistortion") :
           LET r == ChebyshevDistortion_new(o)
           IN  /\ requested' = o
               /\ phase' = IF r.err = "ok" THEN "ready" ELSE "failed"
               /\ self' = r.self
    /\ UNCHANGED call

(***************************************************************************)
(* The arguments of the forward calls: a signal of B x C x L, the required *)
(* parameters in the shapes documented, each optional one given or left    *)
(* at None.                                                                *)
(***************************************************************************)
DistortionSignals ==
    { << << <<RInt(1), RInt(-2), Rat(1, 2)>> >> >>,
      << << <<RInt(2), RZero>>, <<RInt(-1), ROne>> >>,
         << <<Rat(1, 4), RInt(-3)>>, <<RZero, ROne>> >> >> }

\* A B x n integer parameter with distinct entries.
ParamOf(B, n, v) == [b \in 1..B |-> [k \in 1..n |-> v + b - k]]

NoArgs ==
    [log_pre_gain |-> None, log_post_gain |-> None, bias |-> None,
     log_hardness |-> None, z_threshold |-> None, basis_weights |-> None]

OptionalArg(B, v) == {None, ParamOf(B, 1, v)}

ArgsFor(s, B) ==
    CASE s.class = "TanhDistortion" ->
             { [NoArgs EXCEPT !.log_pre_gain = g, !.log_post_gain = q, !.bias = z] :
                   g \in OptionalArg(B, 1), q \in OptionalArg(B, -1), z \in OptionalArg(B, 0) }
      [] s.class = "PiecewiseTanhDistortion" ->
             { [NoArgs EXCEPT !.log_pre_gain = g, !.log_post_gain = q,
                              !.log_hardness = ParamOf(B, 2, 1),
                              !.z_threshold = ParamOf(B, 2, 0)] :
                   g \in OptionalArg(B, 1), q \in OptionalArg(B, -1) }
      [] s.class \in {"PowerDistortion", "ChebyshevDistortion"} ->
             { [NoArgs EXCEPT !.log_pre_gain = g,
                              !.basis_weights = ParamOf(B, s.max_order, 1)] :
                   g \in OptionalArg(B, 1) }

IdleDistortionCall ==
    [pc |-> "idle", method |-> "none", input_signals |-> None, args |-> NoArgs,
     output_signals |-> None, ret |-> {}, error |-> "none", read |-> {}]

distortion_forward_called(c) ==
    /\ phase = "ready"
    /\ call[c].pc = "idle"
    /\ \E x \in DistortionSignals :
           \E a \in ArgsFor(self, Len(x)) :
               SetCall(c, [IdleDistortionCall EXCEPT !.pc = "running", !.method = "forward",
                                                     !.input_signals = x, !.args = a])
    /\ UNCHANGED <<requested, phase, self>>

distortion_forward_ends(c) ==
    /\ call[c].pc = "running"
    /\ LET r == distortion_forward(self, call[c].input_signals, call[c].args)
       IN  IF r.err = "ok"
           THEN SetCall(c, [call[c] EXCEPT !.pc = "returned", !.output_signals = r.out,
                                           !.read = r.read])
           ELSE SetCall(c, [call[c] EXCEPT !.pc = "raised", !.error = r.err,
                                           !.read = r.read])
    /\ UNCHANGED <<requested, phase, self>>

distortion_parameter_size_called(c) ==
    /\ phase = "ready"
    /\ call[c].pc = "idle"
    /\ LET r == distortion_parameter_size(self)
       IN  IF r.err = "ok"
           THEN SetCall(c, [IdleDistortionCall EXCEPT !.pc = "returned",
                                                      !.method = "parameter_size",
                                                      !.ret = r.ret])
           ELSE SetCall(c, [IdleDistortionCall EXCEPT !.pc = "raised",
                                                      !.method = "parameter_size",
                                                      !.error = r.err])
    /\ UNCHANGED <<requested, phase, self>>

distortion_call_finished(c) ==
    /\ call[c].pc \in {"returned", "raised"}
    /\ SetCall(c, IdleDistortionCall)
    /\ UNCHANGED <<requested, phase, self>>

InitDistortion ==
    /\ requested = [class |-> "none"]
    /\ phase = "new"
    /\ self = NoInstance
    /\ call = [c \in Callers |-> IdleDistortionCall]

NextDistortion ==
    \/ TanhDistortion_init
    \/ PiecewiseTanhDistortion_init
    \/ PowerDistortion_init
    \/ ChebyshevDistortion_init
    \/ \E c \in {"t1"} : distortion_forward_called(c)
    \/ \E c \in {"t1"} : distortion_forward_ends(c)
    \/ \E c \in {"t1"} : distortion_parameter_size_called(c)
    \/ \E c \in {"t1"} : distortion_call_finished(c)

SpecDistortion == InitDistortion /\ [][NextDistortion]_vars

(***************************************************************************)
(* The parameters forward reads under a configuration: the positional      *)
(* ones of its signature and the optional ones its body reaches.           *)
(***************************************************************************)
ForwardRequires(s) ==
    CASE s.class = "TanhDistortion" ->
             (IF s.pre_post_gain THEN {"log_pre_gain"} ELSE {})
             \cup (IF s.pre_post_gain /\ ~s.inverse_post_gain THEN {"log_post_gain"} ELSE {})
             \cup (IF s.use_bias THEN {"bias"} ELSE {})
      [] s.class = "PiecewiseTanhDistortion" ->
             {"log_hardness", "z_threshold"}
             \cup (IF s.pre_post_gain THEN {"log_pre_gain"} ELSE {})
             \cup (IF s.pre_post_gain /\ ~s.inverse_post_gain THEN {"log_post_gain"} ELSE {})
      [] s.class \in {"PowerDistortion", "ChebyshevDistortion"} ->
             {"basis_weights"} \cup (IF s.pre_gain THEN {"log_pre_gain"} ELSE {})

DistortionClasses ==
    {"TanhDistortion", "PiecewiseTanhDistortion", "PowerDistortion", "ChebyshevDistortion"}

Ended(c) == call[c].pc \in {"returned", "raised"}

\* Every argument but log_post_gain that the configuration needs is given.
OthersGiven(c) ==
    \A name \in ForwardRequires(self) \ {"log_post_gain"} : call[c].args[name] # None

(***************************************************************************)
(* C13.  TanhDistortion.forward needs log_post_gain only when pre_post_gain*)
(* and inverse_post_gain are both False: then it reads it and applies it   *)
(* as the post-gain; under every other combination of the two flags it     *)
(* never reads it and completes with log_post_gain left at None.           *)
(***************************************************************************)
C13_PostGainOnlyIfBothFalse ==
    \A c \in Callers :
        (self.class = "TanhDistortion" /\ Forwards(c) /\ Ended(c) /\ OthersGiven(c)) =>
            IF ~self.pre_post_gain /\ ~self.inverse_post_gain
            THEN call[c].args.log_post_gain # None =>
                     /\ Returned(c)
                     /\ "log_post_gain" \in call[c].read
                     /\ call[c].output_signals =
                            Scaled(TanhDistortion_forward(
                                       self, call[c].input_signals,
                                       [call[c].args EXCEPT !.log_post_gain = None]).out,
                                   Map2(call[c].args.log_post_gain, Exp))
            ELSE /\ "log_post_gain" \notin call[c].read
                 /\ call[c].args.log_post_gain = None => Returned(c)

(***************************************************************************)
(* C14.  For every distortion processor and every combination of its       *)
(* flags, parameter_size() returns a dictionary whose keys are exactly the *)
(* parameters forward requires under that configuration.                   *)
(***************************************************************************)
C14_ParameterSizeKeysAreRequired ==
    \A c \in Callers :
        (self.class \in DistortionClasses /\ call[c].method = "parameter_size" /\ Ended(c)) =>
            /\ Returned(c)
            /\ call[c].ret.type = "dict"
            /\ { item[1] : item \in call[c].ret.items } = ForwardRequires(self)

(***************************************************************************)
(* C15.  For every distortion processor, a forward call on a B x C x L     *)
(* signal with its parameters in the documented shapes completes without   *)
(* error and returns a B x C x L signal; PiecewiseTanhDistortion takes the *)
(* components of z_threshold and log_hardness in the order                 *)
(* [positive, negative].                                                   *)
(***************************************************************************)
AllGiven(c) == \A name \in ForwardRequires(self) : call[c].args[name] # None

PiecewiseDocumented(x, log_hardness, z_threshold) ==
    [b \in 1..Len(x) |-> [ch \in 1..Len(x[b]) |-> [n \in 1..Len(x[b][ch]) |->
        PiecewiseSample(x[b][ch][n],
                        Sigmoid(RInt(z_threshold[b][1])), Sigmoid(RInt(z_threshold[b][2])),
                        Exp(log_hardness[b][1]), Exp(log_hardness[b][2]))]]]

C15_ForwardCompletesInShape ==
    \A c \in Callers :
        (self.class \in DistortionClasses /\ Forwards(c) /\ Ended(c) /\ AllGiven(c)) =>
            /\ Returned(c)
            /\ Shape3(call[c].output_signals) = Shape3(call[c].input_signals)
            /\ (self.class = "PiecewiseTanhDistortion"
                    /\ ~self.pre_post_gain /\ ~self.remove_dc) =>
                   call[c].output_signals =
                       PiecewiseDocumented(call[c].input_signals, call[c].args.log_hardness,
                                           call[c].args.z_threshold)

(***************************************************************************)
(* NewZeroPhaseFIREqualizer.forward statement by statement.  A call's pc   *)
(* is the statement it runs next, named by its line in eq.py; its locals   *)
(* are x (input_signals), h (fir) and y (output_signals) of the strategy   *)
(* method, and `trace` lists the library calls it has made so far.         *)
(***************************************************************************)
StepOptions ==
    { NewOptions(2, ch, FALSE, "linear", NoFreq, NoFreq, NamedWindow("hamming")) :
          ch \in EqChannels \cup {"left_right"} }

StepCall(input_signals, param) ==
    [pc |-> "L182", method |-> "forward", input_signals |-> input_signals,
     param |-> param, fir |-> None, output_signals |-> None, ret |-> {},
     error |-> "none", x |-> None, h |-> None, y |-> None, trace |-> <<>>]

StepRaise(c, e) == SetCall(c, [call[c] EXCEPT !.pc = "raised", !.error = e])

StepReturn(c, op, y) ==
    SetCall(c, [call[c] EXCEPT !.pc = "returned", !.output_signals = y,
                               !.trace = Append(@, op)])

FirstStatement(process) ==
    CASE process = "_process_mono_stereo" -> "L200"
      [] process = "_process_midside" -> "L203"
      [] process = "_process_pseudo_midside" -> "L208"

step_forward_called(c) ==
    /\ phase = "ready"
    /\ call[c].pc = "idle"
    /\ \E x \in SignalSet, p \in FirParamSet : SetCall(c, StepCall(x, p))
    /\ UNCHANGED <<requested, phase, self>>

\* 182: fir = self.fir(log_magnitude)
step_fir(c) ==
    /\ call[c].pc = "L182"
    /\ LET r == FIR_forward(self.fir, call[c].param)
       IN  IF r.err # "ok" THEN StepRaise(c, r.err)
           ELSE SetCall(c, [call[c] EXCEPT !.pc = "L183", !.fir = r.fir,
                                           !.trace = Append(@, "self.fir")])
    /\ UNCHANGED <<requested, phase, self>>

\* 183: self.process(input_signals, fir): the bound method is entered.
step_process(c) ==
    /\ call[c].pc = "L183"
    /\ IF "process" \notin DOMAIN self THEN StepRaise(c, "AttributeError")
       ELSE SetCall(c, [call[c] EXCEPT !.pc = FirstStatement(self.process),
                                       !.x = call[c].input_signals,
                                       !.h = call[c].fir])
    /\ UNCHANGED <<requested, phase, self>>

\* 200: return convolve(input_signals, fir, mode="zerophase")
step_mono_stereo_convolve(c) ==
    /\ call[c].pc = "L200"
    /\ LET r == Convolved(call[c].x, call[c].h)
       IN  IF r.err # "ok" THEN StepRaise(c, r.err) ELSE StepReturn(c, "convolve", r.out)
    /\ UNCHANGED <<requested, phase, self>>

\* 203 with the convolution in place of the transform.
step_midside_lr_to_ms_skipped(c) ==
    /\ call[c].pc = "L203"
    /\ IF Len(call[c].x) # 2 \/ ~ConvolveCompatible(call[c].x, call[c].h)
       THEN StepRaise(c, "ShapeError")
       ELSE SetCall(c, [call[c] EXCEPT !.pc = "L204",
                                       !.x = convolve(call[c].x, call[c].h, "zerophase"),
                                       !.trace = Append(@, "convolve")])
    /\ UNCHANGED <<requested, phase, self>>

\* 203: input_signals = lr_to_ms(input_signals)
step_midside_lr_to_ms(c) ==
    /\ call[c].pc = "L203"
    /\ IF Len(call[c].x) # 2 THEN StepRaise(c, "ShapeError")
       ELSE SetCall(c, [call[c] EXCEPT !.pc = "L204", !.x = lr_to_ms(call[c].x),
                                       !.trace = Append(@, "lr_to_ms(input_signals)")])
    /\ UNCHANGED <<requested, phase, self>>

\* 204: output_signals = convolve(input_signals, fir, mode="zerophase")
step_midside_convolve(c) ==
    /\ call[c].pc = "L204"
    /\ LET r == Convolved(call[c].x, call[c].h)
       IN  IF r.err # "ok" THEN StepRaise(c, r.err)
           ELSE SetCall(c, [call[c] EXCEPT !.pc = "L205", !.y = r.out,
                                           !.trace = Append(@, "convolve")])
    /\ UNCHANGED <<requested, phase, self>>

\* 205: return ms_to_lr(output_signals)
step_midside_ms_to_lr(c) ==
    /\ call[c].pc = "L205"
    /\ StepReturn(c, "ms_to_lr(output_signals)", ms_to_lr(call[c].y))
    /\ UNCHANGED <<requested, phase, self>>

\* 208: fir = ms_to_lr(fir)
step_pseudo_midside_ms_to_lr(c) ==
    /\ call[c].pc = "L208"
    /\ IF Len(call[c].h) # 2 THEN StepRaise(c, "ShapeError")
       ELSE SetCall(c, [call[c] EXCEPT !.pc = "L209", !.h = ms_to_lr(call[c].h),
                                       !.trace = Append(@, "ms_to_lr(fir)")])
    /\ UNCHANGED <<requested, phase, self>>

\* 209: return convolve(input_signals, fir, mode="zerophase")
step_pseudo_midside_convolve(c) ==
    /\ call[c].pc = "L209"
    /\ LET r == Convolved(call[c].x, call[c].h)
       IN  IF r.err # "ok" THEN StepRaise(c, r.err) ELSE StepReturn(c, "convolve", r.out)
    /\ UNCHANGED <<requested, phase, self>>

InitSteps ==
    /\ requested \in StepOptions
    /\ phase = "ready"
    /\ self = NewZeroPhaseFIREqualizer_new(requested).self
    /\ call = [c \in Callers |-> IdleCall]

NextSteps ==
    \/ \E c \in Callers : step_forward_called(c)
    \/ \E c \in Callers : step_fir(c)
    \/ \E c \in Callers : step_process(c)
    \/ \E c \in Callers : step_mono_stereo_convolve(c)
    \/ \E c \in Callers : step_midside_lr_to_ms(c)
    \/ \E c \in Callers : step_midside_convolve(c)
    \/ \E c \in Callers : step_midside_ms_to_lr(c)
    \/ \E c \in Callers : step_pseudo_midside_ms_to_lr(c)
    \/ \E c \in Callers : step_pseudo_midside_convolve(c)
    \/ \E c \in Callers : Finish(c)

SpecSteps == InitSteps /\ [][NextSteps]_vars

(***************************************************************************)
(* C16.  Within one forward call of NewZeroPhaseFIREqualizer the steps run *)
(* in a fixed order per mode.  The FIR is synthesized first.  In midside   *)
(* mode the signal is converted with lr_to_ms, then convolved zero-phase   *)
(* with the untransformed FIR, then converted back with ms_to_lr.  In      *)
(* pseudo_midside mode the FIR is converted with ms_to_lr and the          *)
(* untransformed signal is convolved with it.  In mono and stereo modes    *)
(* neither is transformed.                                                 *)
(***************************************************************************)
StepOrder(eq_channel) ==
    CASE eq_channel \in {"mono", "stereo"} -> <<"self.fir", "convolve">>
      [] eq_channel = "midside" ->
             <<"self.fir", "lr_to_ms(input_signals)", "convolve", "ms_to_lr(output_signals)">>
      [] eq_channel = "pseudo_midside" -> <<"self.fir", "ms_to_lr(fir)", "convolve">>

IsPrefix(s, t) == Len(s) <= Len(t) /\ \A i \in 1..Len(s) : s[i] = t[i]

Stepping(c) == Forwards(c) /\ call[c].pc \notin {"idle", "raised"}

C16_StepsInOrder ==
    \A c \in Callers :
        (ValidConfiguration /\ Stepping(c)) =>
            LET r == call[c]
                zp(u, v) == convolve(u, v, "zerophase")
            IN  /\ IsPrefix(r.trace, StepOrder(self.eq_channel))
                /\ r.pc # "L182" => r.fir = FIR_forward(self.fir, r.param).fir
                /\ r.pc = "L204" => r.x = lr_to_ms(r.input_signals) /\ r.h = r.fir
                /\ r.pc = "L205" => r.y = zp(lr_to_ms(r.input_signals), r.fir)
                /\ r.pc = "L209" => r.x = r.input_signals /\ r.h = ms_to_lr(r.fir)
                /\ r.pc = "returned" =>
                       /\ r.trace = StepOrder(self.eq_channel)
                       /\ r.output_signals = Process(self.process, r.input_signals, r.fir).out
                       /\ r.output_signals =
                              CASE self.eq_channel \in {"mono", "stereo"} ->
                                       zp(r.input_signals, r.fir)
                                [] self.eq_channel = "midside" ->
                                       ms_to_lr(zp(lr_to_ms(r.input_signals), r.fir))
                                [] self.eq_channel = "pseudo_midside" ->
                                       zp(r.input_signals, ms_to_lr(r.fir))

C16_Witness ==
    /\ self.eq_channel = "midside"
    /\ Forwards("t1") /\ Returned("t1")
    /\ call["t1"].trace = StepOrder("midside")
    /\ call["t1"].output_signals # call["t1"].input_signals
    /\ Forwards("t2") /\ call["t2"].pc = "L204"

=============================================================================
